---- MODULE Spec2Model ----
(***************************************************************************)
(* A model of the AI Hindi Video Agent page (src/app/page.tsx) and of its  *)
(* upload relay (src/next.config.js, POST).                                *)
(*                                                                         *)
(* Strings are sequences of one-character strings.  Three specifications   *)
(* share the variables: SpecScript (script generation and line wrapping),  *)
(* SpecAssemble / SpecOverlap (the render callback, one invocation at a    *)
(* time / overlapping invocations) and SpecRelay (the POST handler).       *)
(***************************************************************************)
EXTENDS Integers, Sequences, FiniteSets, TLC

VARIABLES
    topic,            \* useState("") topic
    script,           \* the last value generateHindiScript returned
    lines,            \* useState(SAMPLE_LINES) lines
    wrapIn,           \* a string handed to splitIntoLines on its own
    wrapOut,          \* what splitIntoLines returned for it
    wrapped,          \* whether splitIntoLines has been applied to wrapIn
    durationPerLine,  \* useState(2.5), in whole milliseconds
    resolution,       \* useState([720, 1280])
    lineCount,        \* lines.length as the render callback sees it
    state,            \* useState<RenderState>({status: "idle"})
    pc,               \* per render invocation: where it is suspended
    loc,              \* per render invocation: the locals of render
    obs,              \* per render invocation: what it has done so far
    overlapped,       \* whether render was ever invoked while another ran
    req,              \* the request the relay is handling
    rpc,              \* where the POST handler is
    upstream,         \* the requests issued to the Graph API for req
    remote,           \* how the Graph API call for req settled
    resp              \* the responses returned for req

scriptVars == <<topic, script, lines>>
wrapVars == <<wrapIn, wrapOut, wrapped>>
renderVars == <<durationPerLine, resolution, lineCount, state, pc, loc, obs, overlapped>>
relayVars == <<req, rpc, upstream, remote, resp>>
vars == <<scriptVars, wrapVars, renderVars, relayVars>>

---------------------------------------------------------------------------
(* Strings                                                                 *)

Rep(c, n) == [i \in 1..n |-> c]

Q(n) == Rep("?", n)

Sp == <<" ">>

WhiteSpace == {" ", "\t"}

IsWhite(c) == c \in WhiteSpace

RECURSIVE TrimStart(_)
TrimStart(s) ==
    IF s # <<>> /\ IsWhite(Head(s)) THEN TrimStart(Tail(s)) ELSE s

RECURSIVE TrimEnd(_)
TrimEnd(s) ==
    IF s # <<>> /\ IsWhite(s[Len(s)]) THEN TrimEnd(SubSeq(s, 1, Len(s) - 1)) ELSE s

\* String.prototype.trim
Trim(s) == TrimEnd(TrimStart(s))

\* String.prototype.includes
Contains(s, sub) ==
    \E i \in 1..(Len(s) - Len(sub) + 1) : SubSeq(s, i, i + Len(sub) - 1) = sub

RECURSIVE JoinSpace(_)
JoinSpace(ss) ==
    IF ss = <<>> THEN <<>>
    ELSE IF Len(ss) = 1 THEN ss[1]
    ELSE ss[1] \o Sp \o JoinSpace(Tail(ss))

---------------------------------------------------------------------------
(* Script Generator: generateHindiScript                                   *)

SAMPLE_LINES ==
    << Q(6) \o <<"!">> \o Sp \o Q(2) \o Sp \o Q(2) \o Sp \o Q(2) \o Sp \o Q(4)
         \o Sp \o Q(4) \o Sp \o Q(2) \o Sp \o Q(3) \o Sp \o Q(7),
       Q(2) \o Sp \o Q(6) \o Sp \o Q(4) \o Sp \o Q(3) \o Sp \o Q(2) \o Sp \o Q(6)
         \o Sp \o Q(5) \o Sp \o Q(2) \o Sp \o Q(8),
       Q(4) \o Sp \o Q(7) \o Sp \o Q(2) \o Sp \o Q(3) \o Sp \o Q(4) \o Sp \o Q(4)
         \o Sp \o Q(1) \o Sp \o Q(5) \o <<"!">> >>

\* `??????! ???? ${t} ?? ???? ??? ????? ????`
Base1(t) ==
    Q(6) \o <<"!">> \o Sp \o Q(4) \o Sp \o t \o Sp \o Q(2) \o Sp \o Q(4) \o Sp
      \o Q(3) \o Sp \o Q(5) \o Sp \o Q(4)

\* `${t} ?? ????? ?? ??? ?? ???? ?????? ?? ??????`
Base2(t) ==
    t \o Sp \o Q(2) \o Sp \o Q(5) \o Sp \o Q(2) \o Sp \o Q(3) \o Sp \o Q(2) \o Sp
      \o Q(4) \o Sp \o Q(6) \o Sp \o Q(2) \o Sp \o Q(6)

\* `??? ?? ?????? ??? ?? ???? ?? ???? ?????`
Base3 ==
    Q(3) \o Sp \o Q(2) \o Sp \o Q(6) \o Sp \o Q(3) \o Sp \o Q(2) \o Sp \o Q(4)
      \o Sp \o Q(2) \o Sp \o Q(4) \o Sp \o Q(5)

\* A slip the code does not make: the emptiness test without the trim.
generateHindiScriptNoTrimTest(t) ==
    IF t = <<>> THEN SAMPLE_LINES
    ELSE << Base1(Trim(t)), Base2(Trim(t)), Base3 >>

generateHindiScript(t) ==
    IF Trim(t) = <<>> THEN SAMPLE_LINES
    ELSE << Base1(Trim(t)), Base2(Trim(t)), Base3 >>

---------------------------------------------------------------------------
(* Line Wrapper: splitIntoLines                                            *)

Threshold == 40

\* The greedy .{1,40} at index i of t, backtracking from n characters down:
\* the largest run after which (\s|$) matches, 0 for none.
RECURSIVE DotRun(_, _, _)
DotRun(t, i, n) ==
    IF n = 0 THEN 0
    ELSE IF i + n - 1 = Len(t) THEN n
    ELSE IF i + n - 1 < Len(t) /\ IsWhite(t[i + n]) THEN n
    ELSE DotRun(t, i, n - 1)

\* Length of the match of /.{1,40}(\s|$)/ at index i, 0 for none: the run,
\* and the white space character when it is what (\s|$) matched.
MatchLen(t, i) ==
    LET n == DotRun(t, i, Threshold)
    IN  IF n = 0 THEN 0
        ELSE IF i + n - 1 = Len(t) THEN n ELSE n + 1

\* t.match(/.{1,40}(\s|$)/g): the successive matches, scanning from index i.
RECURSIVE MatchAll(_, _)
MatchAll(t, i) ==
    IF i > Len(t) THEN <<>>
    ELSE LET m == MatchLen(t, i)
         IN  IF m = 0 THEN MatchAll(t, i + 1)
             ELSE <<SubSeq(t, i, i + m - 1)>> \o MatchAll(t, i + m)

\* (t) => t.length > 40 ? t.match(...) ?? [t] : [t]
Chunks(t) ==
    IF Len(t) > Threshold
    THEN LET ms == MatchAll(t, 1) IN IF ms = <<>> THEN <<t>> ELSE ms
    ELSE <<t>>

RECURSIVE FlatMapChunks(_)
FlatMapChunks(texts) ==
    IF texts = <<>> THEN <<>> ELSE Chunks(Head(texts)) \o FlatMapChunks(Tail(texts))

RECURSIVE TrimAndFilter(_)
TrimAndFilter(ss) ==
    IF ss = <<>> THEN <<>>
    ELSE IF Trim(Head(ss)) = <<>> THEN TrimAndFilter(Tail(ss))
    ELSE <<Trim(Head(ss))>> \o TrimAndFilter(Tail(ss))

splitIntoLines(texts) == TrimAndFilter(FlatMapChunks(texts))

---------------------------------------------------------------------------
(* The page's script state: topic, lines, regenerate                       *)

MaxWords == 3

MaxTopicWords == 2

Letters == <<"a", "b", "c", "d", "e">>

\* Word lengths: short, half a line, a full line, longer than a line.
WordLens == {1, 19, 20, Threshold, Threshold + 5}

TopicWordLens == {2, 20, Threshold + 5}

\* Words of the given lengths (word k spelled with letter k), single-spaced.
WordsToString(lens) ==
    JoinSpace([k \in 1..Len(lens) |-> Rep(Letters[((k - 1) % Len(Letters)) + 1], lens[k])])

WordLists == UNION { [1..k -> WordLens] : k \in 1..MaxWords }

\* What the topic field is set to.
Topics ==
    { WordsToString(l) : l \in UNION { [1..k -> TopicWordLens] : k \in 1..MaxTopicWords } }
      \cup { Sp \o WordsToString(<<n>>) \o Sp : n \in TopicWordLens }
      \cup { <<>>, Sp, Sp \o Sp }

\* The strings the Line Wrapper is applied to on its own.
WrapInputs ==
    { WordsToString(l) : l \in WordLists }
      \cup { Sp \o WordsToString(<<n>>) \o Sp : n \in WordLens }
      \cup { <<>>, Sp }

\* onChange={(e) => setTopic(e.target.value)}
SetTopic(t) ==
    /\ topic' = t
    /\ UNCHANGED <<script, lines, wrapVars, renderVars, relayVars>>

\* regenerate, and the Refresh Lines button, which runs the same code
Regenerate ==
    /\ script' = [of |-> topic, out |-> generateHindiScript(topic)]
    /\ lines' = splitIntoLines(generateHindiScript(topic))
    /\ UNCHANGED <<topic, wrapVars, renderVars, relayVars>>

\* splitIntoLines applied to the one string wrapIn
ApplyWrap ==
    /\ ~wrapped
    /\ wrapOut' = splitIntoLines(<<wrapIn>>)
    /\ wrapped' = TRUE
    /\ UNCHANGED <<wrapIn, scriptVars, renderVars, relayVars>>

---------------------------------------------------------------------------
(* Video Assembler: the render callback                                    *)

MaxLines == 4

MaxInvocations == 2

framesPerSecond == 30

\* Seconds-per-line values, in whole milliseconds (durationPerLine * 1000).
DurationsMs == {0, 10, 1050, 2500, 4100}

\* The values used where invocations overlap: one and two frames per line.
ShortDurationsMs == {10, 70}

\* The <option value="WxH"> entries, as e.target.value.split("x").map(Number)
\* returns them, with their labels.
ResolutionOptions ==
    { [value |-> <<720, 1280>>, label |-> "Portrait"],
      [value |-> <<1080, 1920>>, label |-> "Portrait"],
      [value |-> <<1280, 720>>, label |-> "Landscape"] }

Resolutions == { o.value : o \in ResolutionOptions }

\* Line counts the page can hold: SAMPLE_LINES has 3, wrapping adds more.
LineCounts == 3..MaxLines

Invocations == 1..MaxInvocations

\* Math.round(durationPerLine * 1000): the model keeps durationPerLine in
\* milliseconds, and in double arithmetic round((d / 1000) * 1000) = d for
\* every whole d in 0..20000.
PerLineMs(d) == d

\* Where the double product (perLineMs / 1000) * 30 falls just below the
\* exact integer perLineMs * 30 / 1000 (4100 gives 122.99999999999999):
\* all such perLineMs in 0..20000.
DoubleShortfall == {4100, 8200, 16400, 16900}

\* Math.floor((perLineMs / 1000) * framesPerSecond), in double arithmetic
FloorFrames(perLineMs) ==
    ((perLineMs * framesPerSecond) \div 1000)
      - (IF perLineMs \in DoubleShortfall THEN 1 ELSE 0)

\* A slip the code does not make: Math.round in place of Math.floor.
FramesPerLineRounded(perLineMs) ==
    LET r == (perLineMs * framesPerSecond + 500) \div 1000
    IN  IF r > 1 THEN r ELSE 1

\* Math.max(1, Math.floor((perLineMs / 1000) * framesPerSecond))
FramesPerLine(perLineMs) ==
    IF FloorFrames(perLineMs) > 1 THEN FloorFrames(perLineMs) ELSE 1

\* lines.length ? lines : SAMPLE_LINES, as a length
AllLinesCount(n) == IF n # 0 THEN n ELSE Len(SAMPLE_LINES)

\* A slip the code does not make: the progress of the frame before.
FrameProgressBefore(frameIndex, totalFrames) == <<frameIndex, totalFrames>>

\* (frameIndex + 1) / totalFrames, as numerator and denominator
FrameProgress(frameIndex, totalFrames) == <<frameIndex + 1, totalFrames>>

\* A slip the code does not make: the index advanced twice.
NextFrameIndexSkipping(frameIndex) == frameIndex + 2

\* frameIndex++
NextFrameIndex(frameIndex) == frameIndex + 1

\* The RenderState variants, over one record shape.
StIdle == [status |-> "idle", progress |-> <<0, 1>>, info |-> ""]

StPreparing == [status |-> "preparing", progress |-> <<0, 1>>, info |-> ""]

StGenerating(p) == [status |-> "generating", progress |-> p, info |-> ""]

StDone == [status |-> "done", progress |-> <<0, 1>>, info |-> "output.mp4"]

\* A slip the code does not make: the catch block resetting to idle.
StErrorAsIdle(message) == [status |-> "idle", progress |-> <<0, 1>>, info |-> message]

StError(message) == [status |-> "error", progress |-> <<0, 1>>, info |-> message]

NoLocals ==
    [dur |-> 0, res |-> <<0, 0>>, lines |-> 0, canvasW |-> 0, canvasH |-> 0,
     framesPerLine |-> 0, totalFrames |-> 0, li |-> 0, fi |-> 0, frameIndex |-> 0]

NoObs ==
    [published |-> <<>>, writes |-> 0, lastFile |-> -1, lastCaption |-> -1,
     progress |-> <<0, 1>>, progressBefore |-> <<0, 1>>,
     execs |-> <<>>, outcomes |-> <<>>]

\* onChange={(e) => setDurationPerLine(Number(e.target.value))}
SetDurationPerLine(d) ==
    /\ durationPerLine' = d
    /\ UNCHANGED <<resolution, lineCount, state, pc, loc, obs, overlapped, scriptVars, wrapVars, relayVars>>

\* onChange={(e) => setResolution(e.target.value.split("x").map(Number))}
SetResolution(r) ==
    /\ resolution' = r
    /\ UNCHANGED <<durationPerLine, lineCount, state, pc, loc, obs, overlapped, scriptVars, wrapVars, relayVars>>

\* setLines(splitIntoLines(script)), as the number of lines it leaves
SetLineCount(n) ==
    /\ lineCount' = n
    /\ UNCHANGED <<durationPerLine, resolution, state, pc, loc, obs, overlapped, scriptVars, wrapVars, relayVars>>

\* setState(s) by invocation i, recorded in what i has published
Publish(i, s) ==
    /\ state' = s
    /\ obs' = [obs EXCEPT ![i].published = Append(@, s.status)]

\* Invocation j of render has started and not yet returned.
Running(j) == pc[j] \notin {"idle", "finished"}

\* render(): setState({status: "preparing"}), then the encoder load starts.
\* The closure holds the durationPerLine, lines and resolution of this call.
StartRender(i) ==
    /\ pc[i] \in {"idle", "finished"}
    /\ state' = StPreparing
    /\ obs' = [obs EXCEPT ![i] = [NoObs EXCEPT !.published = <<"preparing">>]]
    /\ loc' = [loc EXCEPT ![i] =
                 [NoLocals EXCEPT !.dur = durationPerLine, !.res = resolution,
                                  !.lines = lineCount]]
    /\ pc' = [pc EXCEPT ![i] = "loading"]
    /\ overlapped' = (overlapped \/ \E j \in Invocations \ {i} : Running(j))
    /\ UNCHANGED <<durationPerLine, resolution, lineCount, scriptVars, wrapVars, relayVars>>

\* await ffmpeg.load(...) rejects (or a toBlobURL does): the catch block
LoadFails(i) ==
    /\ pc[i] = "loading"
    /\ Publish(i, StError("load failed"))
    /\ pc' = [pc EXCEPT ![i] = "finished"]
    /\ UNCHANGED <<durationPerLine, resolution, lineCount, loc, overlapped, scriptVars, wrapVars, relayVars>>

\* The load resolves: the canvas is created and sized, the frame counts are
\* computed (lines 63-75); a missing 2D context throws.
LoadDone(i, ctxOk) ==
    /\ pc[i] = "loading"
    /\ LET h == loc[i].res[1]
           w == loc[i].res[2]
           fpl == FramesPerLine(PerLineMs(loc[i].dur))
           n == AllLinesCount(loc[i].lines)
       IN  /\ loc' = [loc EXCEPT ![i] =
                        [@ EXCEPT !.canvasW = w, !.canvasH = h,
                                  !.framesPerLine = IF ctxOk THEN fpl ELSE 0,
                                  !.totalFrames = IF ctxOk THEN n * fpl ELSE 0]]
           /\ IF ctxOk
              THEN /\ pc' = [pc EXCEPT ![i] = "frames"]
                   /\ UNCHANGED <<state, obs>>
              ELSE /\ Publish(i, StError("Canvas not supported"))
                   /\ pc' = [pc EXCEPT ![i] = "finished"]
    /\ UNCHANGED <<durationPerLine, resolution, lineCount, overlapped, scriptVars, wrapVars, relayVars>>

\* One pass of the inner loop body (lines 162-169): draw allLines[li] with
\* progress p, write frame_<frameIndex>.png, frameIndex++, publish p. After
\* the last frame the primary encoder run is started (line 177).
WriteFrame(i) ==
    /\ pc[i] = "frames"
    /\ LET l == loc[i]
           p == FrameProgress(l.frameIndex, l.totalFrames)
           lastOfLine == l.fi + 1 = l.framesPerLine
           li2 == IF lastOfLine THEN l.li + 1 ELSE l.li
           fi2 == IF lastOfLine THEN 0 ELSE l.fi + 1
           finished == li2 = AllLinesCount(l.lines)
       IN  /\ loc' = [loc EXCEPT ![i] =
                        [@ EXCEPT !.li = li2, !.fi = fi2,
                                  !.frameIndex = NextFrameIndex(l.frameIndex)]]
           /\ state' = StGenerating(p)
           /\ obs' = [obs EXCEPT ![i] =
                        [@ EXCEPT !.published = Append(@, "generating"),
                                  !.writes = @ + 1,
                                  !.lastFile = l.frameIndex,
                                  !.lastCaption = l.li,
                                  !.progressBefore = obs[i].progress,
                                  !.progress = p,
                                  !.execs = IF finished THEN <<"mpeg4">> ELSE @]]
           /\ pc' = [pc EXCEPT ![i] = IF finished THEN "primary" ELSE "frames"]
    /\ UNCHANGED <<durationPerLine, resolution, lineCount, overlapped, scriptVars, wrapVars, relayVars>>

\* fetch(dataURL) or ffmpeg.writeFile rejects: the catch block
WriteFails(i) ==
    /\ pc[i] = "frames"
    /\ Publish(i, StError("write failed"))
    /\ pc' = [pc EXCEPT ![i] = "finished"]
    /\ UNCHANGED <<durationPerLine, resolution, lineCount, loc, overlapped, scriptVars, wrapVars, relayVars>>

\* How an ffmpeg.exec promise settles: resolved with exit code 0, resolved
\* with a non-zero exit code (the encoder run failed), or rejected.
ExecOutcomes == {"zero", "nonzero", "rejected"}

\* The primary run settles. Only a rejection reaches the inner catch, which
\* starts the fallback run; a resolved promise goes on to readFile, its
\* exit code unread.
PrimaryDone(i, outcome) ==
    /\ pc[i] = "primary"
    /\ obs' = [obs EXCEPT ![i] =
                 [@ EXCEPT !.outcomes = Append(@, outcome),
                           !.execs = IF outcome = "rejected"
                                     THEN Append(@, "mjpeg") ELSE @]]
    /\ pc' = [pc EXCEPT ![i] = IF outcome = "rejected" THEN "fallback" ELSE "read"]
    /\ UNCHANGED <<durationPerLine, resolution, lineCount, state, loc, overlapped, scriptVars, wrapVars, relayVars>>

\* The fallback run settles: a rejection leaves render through the outer
\* catch, a resolved promise goes on to readFile.
FallbackDone(i, outcome) ==
    /\ pc[i] = "fallback"
    /\ IF outcome = "rejected"
       THEN /\ state' = StError("exec failed")
            /\ obs' = [obs EXCEPT ![i] =
                         [@ EXCEPT !.outcomes = Append(@, outcome),
                                   !.published = Append(@, "error")]]
            /\ pc' = [pc EXCEPT ![i] = "finished"]
       ELSE /\ obs' = [obs EXCEPT ![i].outcomes = Append(@, outcome)]
            /\ pc' = [pc EXCEPT ![i] = "read"]
            /\ UNCHANGED state
    /\ UNCHANGED <<durationPerLine, resolution, lineCount, loc, overlapped, scriptVars, wrapVars, relayVars>>

\* output.mp4 is in the encoder's file system when a run ended with code 0.
OutputWritten(i) == \E k \in 1..Len(obs[i].outcomes) : obs[i].outcomes[k] = "zero"

\* await ffmpeg.readFile("output.mp4"): the blob and done, or the catch block
ReadDone(i) ==
    /\ pc[i] = "read"
    /\ IF OutputWritten(i)
       THEN Publish(i, StDone)
       ELSE Publish(i, StError("readFile failed"))
    /\ pc' = [pc EXCEPT ![i] = "finished"]
    /\ UNCHANGED <<durationPerLine, resolution, lineCount, loc, overlapped, scriptVars, wrapVars, relayVars>>

---------------------------------------------------------------------------
(* Upload Relay: POST                                                      *)

\* A FormData entry: form.get(name) is null, a string or a File.
Null == [kind |-> "null", s |-> ""]

Str(s) == [kind |-> "string", s |-> s]

FileEntry == [kind |-> "file", s |-> "video.mp4"]

\* JavaScript truthiness of form.get(name)
Truthy(e) == e.kind = "file" \/ (e.kind = "string" /\ e.s # "")

\* String(form.get(name) || "")
StringOr(e) ==
    IF ~Truthy(e) THEN ""
    ELSE IF e.kind = "file" THEN "[object File]"
    ELSE e.s

\* encodeURIComponent, on the identifiers the model sends
EncodeURIComponent(s) == IF s = "me/x" THEN "me%2Fx" ELSE s

NoForm == [pageId |-> Null, accessToken |-> Null, description |-> Null, file |-> Null]

Forms ==
    [pageId : {Null, Str(""), Str("1234"), Str("me/x")},
     accessToken : {Null, Str(""), Str("EAAB")},
     description : {Null, Str(""), Str("AI video")},
     file : {Null, Str(""), Str("video.mp4"), FileEntry}]

\* A request whose body req.formData() parses, or one for which it throws.
Requests ==
    { [parsed |-> TRUE, form |-> f] : f \in Forms }
      \cup { [parsed |-> FALSE, form |-> NoForm] }

NoRequest == [parsed |-> FALSE, form |-> NoForm]

\* The bodies the Graph API answers with.
RemoteBodies ==
    { "{\"id\":\"42\"}",
      "{ \"id\" : \"42\" }",
      "{\"error\":{\"message\":\"Invalid OAuth access token\"}}",
      "{\"error\":{\"code\":190}}",
      "<html>Bad Gateway</html>" }

\* How the Graph API call settles: fetch rejects, or a response arrives
\* (res.ok and the body text).
RemoteOutcomes ==
    { [kind |-> "rejected", ok |-> FALSE, body |-> "", message |-> m] :
        m \in {"fetch failed", ""} }
      \cup { [kind |-> "response", ok |-> ok, body |-> b, message |-> ""] :
               ok \in BOOLEAN, b \in RemoteBodies }

NoRemote == [kind |-> "none", ok |-> FALSE, body |-> "", message |-> ""]

\* res.json(): whether the body is JSON text
IsJson(text) == text # "<html>Bad Gateway</html>"

\* A JSON value is kept as the set of its <<path, leaf>> pairs.
\* res.json(): the value of a JSON body
JsonParse(text) ==
    CASE text = "{\"id\":\"42\"}" -> {<<"id", "42">>}
      [] text = "{ \"id\" : \"42\" }" -> {<<"id", "42">>}
      [] text = "{\"error\":{\"message\":\"Invalid OAuth access token\"}}"
           -> {<<"error.message", "Invalid OAuth access token">>}
      [] text = "{\"error\":{\"code\":190}}" -> {<<"error.code", "190">>}

\* {error: message}
ErrorBody(message) == {<<"error", message>>}

\* JSON.stringify of the values the handler serialises
JsonStringify(v) ==
    CASE v = {<<"id", "42">>} -> "{\"id\":\"42\"}"
      [] v = {<<"error.message", "Invalid OAuth access token">>}
           -> "{\"error\":{\"message\":\"Invalid OAuth access token\"}}"
      [] v = {<<"error.code", "190">>} -> "{\"error\":{\"code\":190}}"
      [] {x[1] : x \in v} = {"error"}
           -> "{\"error\":\"" \o (CHOOSE x \in v : TRUE)[2] \o "\"}"

\* data?.error?.message || "Facebook upload failed"
RemoteErrorMessage(data) ==
    IF \E x \in data : x[1] = "error.message" /\ x[2] # ""
    THEN (CHOOSE x \in data : x[1] = "error.message")[2]
    ELSE "Facebook upload failed"

\* e?.message || "Server error"
ExceptionMessage(m) == IF m # "" THEN m ELSE "Server error"

Response(status, value) == [status |-> status, body |-> JsonStringify(value)]

\* A slip the code does not make: the test without "file instanceof File".
MissingFieldsNoTypeTest(f) ==
    \/ StringOr(f.pageId) = ""
    \/ StringOr(f.accessToken) = ""
    \/ ~Truthy(f.file)

\* !pageId || !accessToken || !file || !(file instanceof File)
MissingFields(f) ==
    \/ StringOr(f.pageId) = ""
    \/ StringOr(f.accessToken) = ""
    \/ ~Truthy(f.file)
    \/ f.file.kind # "file"

\* The multipart request sent to the Graph API (lines 29-35).
UpstreamRequest(f) ==
    [url |-> EncodeURIComponent(StringOr(f.pageId)),
     source |-> f.file,
     description |-> IF StringOr(f.description) # ""
                     THEN Str(StringOr(f.description)) ELSE Null,
     access_token |-> StringOr(f.accessToken)]

\* A slip the code does not make: the remote body passed through whatever
\* res.ok says.
SettledResponseIgnoringOk(out) ==
    IF out.kind = "rejected" THEN Response(500, ErrorBody(ExceptionMessage(out.message)))
    ELSE IF ~IsJson(out.body)
    THEN Response(500, ErrorBody(ExceptionMessage("Unexpected token < in JSON")))
    ELSE Response(200, JsonParse(out.body))

\* Lines 35-44: what the handler returns once the Graph API call settled.
SettledResponse(out) ==
    IF out.kind = "rejected" THEN Response(500, ErrorBody(ExceptionMessage(out.message)))
    ELSE IF ~IsJson(out.body)
    THEN Response(500, ErrorBody(ExceptionMessage("Unexpected token < in JSON")))
    ELSE IF ~out.ok
    THEN Response(500, ErrorBody(RemoteErrorMessage(JsonParse(out.body))))
    ELSE Response(200, JsonParse(out.body))

\* A request arrives at POST.
Receive(r) ==
    /\ rpc \in {"idle", "responded"}
    /\ req' = r
    /\ rpc' = "received"
    /\ upstream' = <<>>
    /\ remote' = NoRemote
    /\ resp' = <<>>
    /\ UNCHANGED <<scriptVars, wrapVars, renderVars>>

\* await req.formData() throws: the catch block
ParseFails ==
    /\ rpc = "received"
    /\ ~req.parsed
    /\ resp' = Append(resp, Response(500, ErrorBody(ExceptionMessage("Failed to parse body as FormData."))))
    /\ rpc' = "responded"
    /\ UNCHANGED <<req, upstream, remote, scriptVars, wrapVars, renderVars>>

\* Lines 19-35: the fields are read and tested; 400, or the upstream fetch
Validate ==
    /\ rpc = "received"
    /\ req.parsed
    /\ IF MissingFields(req.form)
       THEN /\ resp' = Append(resp, Response(400, ErrorBody("Missing required fields")))
            /\ rpc' = "responded"
            /\ UNCHANGED upstream
       ELSE /\ upstream' = Append(upstream, UpstreamRequest(req.form))
            /\ rpc' = "awaitingRemote"
            /\ UNCHANGED resp
    /\ UNCHANGED <<req, remote, scriptVars, wrapVars, renderVars>>

\* The fetch settles and the handler answers.
RemoteSettles(out) ==
    /\ rpc = "awaitingRemote"
    /\ remote' = out
    /\ resp' = Append(resp, SettledResponse(out))
    /\ rpc' = "responded"
    /\ UNCHANGED <<req, upstream, scriptVars, wrapVars, renderVars>>

---------------------------------------------------------------------------
(* Specifications                                                          *)

\* The page and the relay after construction.
Init ==
    /\ topic = <<>>
    /\ script = [of |-> <<>>, out |-> <<>>]
    /\ lines = SAMPLE_LINES
    /\ wrapIn = <<>>
    /\ wrapOut = <<>>
    /\ wrapped = FALSE
    /\ durationPerLine = 2500
    /\ resolution = <<720, 1280>>
    /\ lineCount = Len(SAMPLE_LINES)
    /\ state = StIdle
    /\ pc = [i \in Invocations |-> "idle"]
    /\ loc = [i \in Invocations |-> NoLocals]
    /\ obs = [i \in Invocations |-> NoObs]
    /\ overlapped = FALSE
    /\ req = NoRequest
    /\ rpc = "idle"
    /\ upstream = <<>>
    /\ remote = NoRemote
    /\ resp = <<>>

\* The page once the seconds-per-line field holds 0.01: one frame per line.
OverlapInit ==
    /\ topic = <<>>
    /\ script = [of |-> <<>>, out |-> <<>>]
    /\ lines = SAMPLE_LINES
    /\ wrapIn = <<>>
    /\ wrapOut = <<>>
    /\ wrapped = FALSE
    /\ durationPerLine = 10
    /\ resolution = <<720, 1280>>
    /\ lineCount = Len(SAMPLE_LINES)
    /\ state = StIdle
    /\ pc = [i \in Invocations |-> "idle"]
    /\ loc = [i \in Invocations |-> NoLocals]
    /\ obs = [i \in Invocations |-> NoObs]
    /\ overlapped = FALSE
    /\ req = NoRequest
    /\ rpc = "idle"
    /\ upstream = <<>>
    /\ remote = NoRemote
    /\ resp = <<>>

ScriptNext ==
    \/ \E t \in Topics : SetTopic(t)
    \/ Regenerate

SpecScript == Init /\ [][ScriptNext]_vars

\* The Line Wrapper on its own: any of WrapInputs is handed to it.
WrapInit ==
    /\ topic = <<>>
    /\ script = [of |-> <<>>, out |-> <<>>]
    /\ lines = SAMPLE_LINES
    /\ wrapIn \in WrapInputs
    /\ wrapOut = <<>>
    /\ wrapped = FALSE
    /\ durationPerLine = 2500
    /\ resolution = <<720, 1280>>
    /\ lineCount = Len(SAMPLE_LINES)
    /\ state = StIdle
    /\ pc = [i \in Invocations |-> "idle"]
    /\ loc = [i \in Invocations |-> NoLocals]
    /\ obs = [i \in Invocations |-> NoObs]
    /\ overlapped = FALSE
    /\ req = NoRequest
    /\ rpc = "idle"
    /\ upstream = <<>>
    /\ remote = NoRemote
    /\ resp = <<>>

WrapNext == ApplyWrap

SpecWrap == WrapInit /\ [][WrapNext]_vars

AssembleNext ==
    \/ \E d \in DurationsMs : SetDurationPerLine(d)
    \/ \E r \in Resolutions : SetResolution(r)
    \/ \E n \in LineCounts : SetLineCount(n)
    \/ StartRender(1)
    \/ LoadFails(1)
    \/ \E ctxOk \in BOOLEAN : LoadDone(1, ctxOk)
    \/ WriteFrame(1)
    \/ WriteFails(1)
    \/ \E o \in ExecOutcomes : PrimaryDone(1, o)
    \/ \E o \in ExecOutcomes : FallbackDone(1, o)
    \/ ReadDone(1)

\* One render invocation at a time.
SpecAssemble == Init /\ [][AssembleNext]_vars

OverlapNext ==
    \/ \E d \in ShortDurationsMs : SetDurationPerLine(d)
    \/ \E i \in Invocations : StartRender(i)
    \/ \E i \in Invocations : LoadFails(i)
    \/ \E i \in Invocations, ctxOk \in BOOLEAN : LoadDone(i, ctxOk)
    \/ \E i \in Invocations : WriteFrame(i)
    \/ \E i \in Invocations : WriteFails(i)
    \/ \E i \in Invocations, o \in ExecOutcomes : PrimaryDone(i, o)
    \/ \E i \in Invocations, o \in ExecOutcomes : FallbackDone(i, o)
    \/ \E i \in Invocations : ReadDone(i)

\* Render invoked again while earlier invocations are still running.
SpecOverlap == OverlapInit /\ [][OverlapNext]_vars

RelayNext ==
    \/ \E r \in Requests : Receive(r)
    \/ ParseFails
    \/ Validate
    \/ \E out \in RemoteOutcomes : RemoteSettles(out)

SpecRelay == Init /\ [][RelayNext]_vars

---------------------------------------------------------------------------
(* Properties                                                              *)

\* Invocation i has written all its frames and started the encoder.
Encoding(i) == obs[i].execs # <<>>

\* Math.round(s * 30) for s = d / 1000
RoundedFrames(d) == (d * framesPerSecond + 500) \div 1000

\* C1, as stated: for every positive seconds-per-line value the number of
\* frames written is lineCount * round(s * 30).
C1_FramesRounded ==
    \A i \in Invocations :
        (Encoding(i) /\ loc[i].dur > 0)
            => obs[i].writes = loc[i].lines * RoundedFrames(loc[i].dur)

\* C1, amended: the number of frames written is lineCount times the larger
\* of 1 and the floor of the double product (perLineMs / 1000) * 30; that is
\* lineCount * round(s * 30) whenever s is a positive multiple of 0.5.
C1_FramesFloored ==
    \A i \in Invocations :
        (Encoding(i) /\ loc[i].dur > 0) =>
            LET d == loc[i].dur
                exact == (d * 30) \div 1000
                floored == IF d \in DoubleShortfall THEN exact - 1 ELSE exact
            IN  /\ obs[i].writes = loc[i].lines * (IF floored >= 1 THEN floored ELSE 1)
                /\ d % 500 = 0 => obs[i].writes = loc[i].lines * RoundedFrames(d)

\* 2.5 seconds per line and 3 lines: 225 frames written, 75 per line.
C1_Witness ==
    \E i \in Invocations :
        /\ Encoding(i)
        /\ loc[i].dur = 2500 /\ loc[i].lines = 3
        /\ loc[i].framesPerLine = 75 /\ obs[i].writes = 225

\* C2: the k-th frame file written by an invocation has index k - 1 (indices
\* 0, 1, 2, ... in order, none skipped, none written twice), its caption is
\* script line floor(index / framesPerLine), and the encoder starts once
\* totalFrames files are written.
C2_FrameOrder ==
    \A i \in Invocations :
        /\ obs[i].writes = 0 => obs[i].lastFile = -1
        /\ obs[i].writes > 0 =>
              /\ obs[i].lastFile = obs[i].writes - 1
              /\ obs[i].lastCaption = obs[i].lastFile \div loc[i].framesPerLine
              /\ obs[i].lastCaption < loc[i].lines
              /\ obs[i].writes <= loc[i].totalFrames
        /\ Encoding(i) => obs[i].writes = loc[i].totalFrames

\* The last of 225 frames: file index 224, captioned with the third line.
C2_Witness ==
    \E i \in Invocations :
        /\ Encoding(i)
        /\ loc[i].framesPerLine = 75
        /\ obs[i].lastFile = 224 /\ obs[i].lastCaption = 2

\* a / b < c / d, for positive denominators
Less(p, q) == p[1] * q[2] < q[1] * p[2]

\* C3: every progress value an invocation publishes lies in (0, 1] and is
\* larger than the one it published before, the observable state carries the
\* value published, and the last value before the encoder starts is 1.
C3_Progress ==
    \A i \in Invocations :
        obs[i].writes > 0 =>
            /\ Less(<<0, 1>>, obs[i].progress)
            /\ ~Less(<<1, 1>>, obs[i].progress)
            /\ obs[i].writes > 1 => Less(obs[i].progressBefore, obs[i].progress)
            /\ Encoding(i) => obs[i].progress[1] = obs[i].progress[2]
            /\ (state.status = "generating" /\ Running(i))
                  => state.progress = obs[i].progress

\* The encoder is started after progress 224/225 was followed by 225/225.
C3_Witness ==
    \E i \in Invocations :
        /\ pc[i] = "primary"
        /\ obs[i].progressBefore = <<224, 225>>
        /\ obs[i].progress = <<225, 225>>
        /\ state = StGenerating(<<225, 225>>)

\* The encoder run k of invocation i failed: non-zero exit code or rejection.
RunFailed(i, k) == obs[i].outcomes[k] # "zero"

\* C6: the primary (mpeg4) profile runs first; once the primary run has
\* settled the fallback (mjpeg) profile has been started if and only if the
\* primary run failed; the render ends in done when a run succeeded and in
\* error when both failed.
C6_Fallback ==
    \A i \in Invocations :
        /\ Encoding(i) => obs[i].execs[1] = "mpeg4"
        /\ Len(obs[i].outcomes) >= 1 =>
              (Len(obs[i].execs) = 2 /\ obs[i].execs[2] = "mjpeg") <=> RunFailed(i, 1)
        /\ (pc[i] = "finished" /\ Len(obs[i].outcomes) >= 1) =>
              IF \E k \in 1..Len(obs[i].outcomes) : ~RunFailed(i, k)
              THEN obs[i].published[Len(obs[i].published)] = "done"
              ELSE obs[i].published[Len(obs[i].published)] = "error"

\* C10: the drawing surface of a render has the width W and the height H of
\* the resolution W x H it was started with, so Portrait options give a
\* surface taller than wide and the Landscape option one wider than tall.
C10_CanvasSize ==
    \A i \in Invocations :
        loc[i].canvasW # 0 =>
            /\ loc[i].canvasW = loc[i].res[1]
            /\ loc[i].canvasH = loc[i].res[2]
            /\ \A o \in ResolutionOptions :
                  o.value = loc[i].res =>
                      IF o.label = "Portrait"
                      THEN loc[i].canvasH > loc[i].canvasW
                      ELSE loc[i].canvasW > loc[i].canvasH

Rank(status) ==
    CASE status = "idle" -> 0
      [] status = "preparing" -> 1
      [] status = "generating" -> 2
      [] status \in {"done", "error"} -> 3

\* This step is a new invocation of render.
Starts(i) == pc[i] \in {"idle", "finished"} /\ pc'[i] = "loading"

\* The observable state keeps its status, or moves forward in
\* idle -> preparing -> generating -> done | error (generating may repeat),
\* or is set to preparing by a new invocation; each new invocation sets
\* preparing.
ForwardStep ==
    /\ \A i \in Invocations : Starts(i) => state'.status = "preparing"
    /\ \/ state' = state
       \/ Rank(state'.status) > Rank(state.status)
       \/ state.status = "generating" /\ state'.status = "generating"
       \/ \E i \in Invocations : Starts(i)

\* C7, as stated: in every execution, overlapping invocations included, the
\* observable render state never moves backward except to preparing on a new
\* invocation (a change that keeps the status is not counted as backward).
C7_ForwardAlways == [][ForwardStep \/ state'.status = state.status]_vars

\* C7, amended: each invocation begins by setting preparing, and as long as
\* render has never been invoked while an earlier invocation was running the
\* observable render state never moves backward except to preparing on a
\* new invocation.
C7_ForwardUnlessOverlapped ==
    [][/\ \A i \in Invocations : Starts(i) => state'.status = "preparing"
       /\ ~overlapped' => ForwardStep]_vars

\* A second render, started after the first had ended in done, is generating.
C7_Witness ==
    /\ ~overlapped
    /\ state.status = "generating"
    /\ \E i \in Invocations :
          /\ Running(i)
          /\ \E j \in Invocations \ {i} :
                /\ pc[j] = "finished"
                /\ obs[j].published[Len(obs[j].published)] = "done"

\* pageId or accessToken absent or empty, or the file part absent or not a file
FieldMissing(f) ==
    \/ f.pageId.kind = "null" \/ f.pageId = Str("")
    \/ f.accessToken.kind = "null" \/ f.accessToken = Str("")
    \/ f.file.kind # "file"

\* C4: a form with pageId or accessToken absent or empty, or with the file
\* part absent or not a file, is answered by 400 {error: "Missing required
\* fields"} whatever its description, and no request goes to the remote API.
C4_MissingFields ==
    (req.parsed /\ FieldMissing(req.form)) =>
        /\ upstream = <<>>
        /\ rpc = "responded" =>
              resp = << [status |-> 400,
                         body |-> "{\"error\":\"Missing required fields\"}"] >>

\* A form with a description whose file part is a string, answered by 400.
C4_Witness ==
    /\ rpc = "responded"
    /\ req.parsed
    /\ req.form.pageId = Str("1234") /\ req.form.accessToken = Str("EAAB")
    /\ req.form.description = Str("AI video")
    /\ req.form.file = Str("video.mp4")
    /\ Len(resp) = 1 /\ resp[1].status = 400

C8_TopicInEveryLine ==
    script.out # <<>> =>
        IF Trim(script.of) = <<>> THEN script.out = SAMPLE_LINES
        ELSE /\ Len(script.out) = 3
             /\ \A k \in 1..3 : Contains(script.out[k], Trim(script.of))

\* C8, amended: for a non-empty topic the script has 3 lines, the first two
\* of which contain the trimmed topic, the third being the same closing line
\* for every topic; for an empty or whitespace-only topic it is the
\* placeholder sequence.
C8_TopicInFirstTwoLines ==
    script.out # <<>> =>
        IF Trim(script.of) = <<>> THEN script.out = SAMPLE_LINES
        ELSE /\ Len(script.out) = 3
             /\ \A k \in 1..2 : Contains(script.out[k], Trim(script.of))
             /\ script.out[3] = Base3
             /\ script.out # SAMPLE_LINES

\* A script generated for a topic with white space around it.
C8_Witness ==
    /\ script.of = Sp \o Rep("a", 2) \o Sp
    /\ Len(script.out) = 3
    /\ Contains(script.out[1], Rep("a", 2))

\* C9: a string of at most 40 characters comes back unchanged but for the
\* trimming; a longer one comes back as at least 2 non-empty chunks of at
\* most 40 characters which, joined by single spaces, give the string back.
C9_WrapKeepsContent ==
    wrapped =>
        IF Len(wrapIn) <= Threshold
        THEN wrapOut = (IF Trim(wrapIn) = <<>> THEN <<>> ELSE <<Trim(wrapIn)>>)
        ELSE /\ Len(wrapOut) >= 2
             /\ \A k \in 1..Len(wrapOut) :
                   wrapOut[k] # <<>> /\ Len(wrapOut[k]) <= Threshold
             /\ JoinSpace(wrapOut) = Trim(wrapIn)

====
